---- MODULE Spec2Model ----
(***************************************************************************)
(* A model of haystack/modeling/model/tokenization.py: the tokenizer        *)
(* resolver (get_tokenizer, _infer_tokenizer_classname), the metadata       *)
(* preserving tokenizer (tokenize_with_metadata, _words_to_tokens), the     *)
(* batch question-answering tokenization and truncate_sequences.            *)
(*                                                                         *)
(* Texts are sequences of one-character strings.  A call of a function is   *)
(* one action: it draws its arguments from bounded sets and records the     *)
(* arguments and the outcome (a returned value or a raised exception) in    *)
(* the variable `call`.  The multiprocessing pool that runs the batch       *)
(* tokenization in two workers is the variable `pool`.                      *)
(***************************************************************************)
EXTENDS Integers, Sequences, FiniteSets, TLC

VARIABLES call, pool

vars == <<call, pool>>

(***************************************************************************)
(* Bounds of the model.                                                     *)
(***************************************************************************)
\* longest text handed to tokenize_with_metadata
MaxLen == 4
\* longest subword a tokenizer of the model produces (characters)
PieceLen == 2
\* documents in the dataset handed to the pool
MaxDocs == 2
\* questions in the dataset handed to the pool
MaxQuestions == 2
\* number of batch indices the pool assigns from, less one
MaxIndex == 2
\* longest sequence handed to truncate_sequences
MaxSeq == 5
\* largest max_seq_len handed to truncate_sequences
MaxSeqLen == 4
\* largest stride handed to truncate_sequences
MaxStride == 1

(***************************************************************************)
(* Python values.                                                           *)
(***************************************************************************)
\* The names bound in the module's global namespace: its imports, its
\* constants and its functions.
ModuleNames ==
    {"absolute_import", "division", "print_function", "unicode_literals",
     "Dict", "Any", "Tuple", "Optional", "List", "Union",
     "re", "logging", "np", "AutoTokenizer", "transformers",
     "AutoConfig", "PreTrainedTokenizer",
     "ModelingError", "SampleBasket",
     "TOKENIZERS_PARAMS", "TOKENIZERS_MAPPING", "TOKENIZERS_STRING_HINTS",
     "logger", "SPECIAL_TOKENIZER_CHARS",
     "get_tokenizer", "_infer_tokenizer_classname",
     "tokenize_batch_question_answering", "_get_start_of_word_QA",
     "tokenize_with_metadata", "truncate_sequences", "_words_to_tokens"}

\* Looking a global name up succeeds iff the module binds it (else NameError).
IsBound(name) == name \in ModuleNames

\* Python's None among word indices; a word index k is Word(k).
None == [some |-> FALSE, id |-> 0]
Word(k) == [some |-> TRUE, id |-> k]

\* numpy.ediff1d on integers: the differences of consecutive elements
Ediff1d(a) == [i \in 1..(IF Len(a) = 0 THEN 0 ELSE Len(a) - 1) |-> a[i + 1] - a[i]]

(***************************************************************************)
(* Texts.                                                                   *)
(***************************************************************************)
\* "a" is a letter of the vocabulary, "?" a character outside it,
\* " " and "\t" are whitespace.
Chars == {"a", "?", " ", "\t"}
Whitespace == {" ", "\t"}
Texts == UNION {[1..n -> Chars] : n \in 0..MaxLen}

\* re.sub(r"\s", " ", text)
NormalizeWhitespace(text) ==
    [i \in DOMAIN text |-> IF text[i] \in Whitespace THEN " " ELSE text[i]]

\* position of the first " " of t, 0 when there is none
FirstSpace(t) ==
    IF \E i \in DOMAIN t : t[i] = " "
    THEN CHOOSE i \in DOMAIN t : t[i] = " " /\ \A j \in 1..(i - 1) : t[j] # " "
    ELSE 0

\* text.split(" "): one (possibly empty) word between any two spaces
RECURSIVE SplitSpace(_)
SplitSpace(t) ==
    LET i == FirstSpace(t)
    IN  IF i = 0 THEN <<t>>
        ELSE <<SubSeq(t, 1, i - 1)>> \o SplitSpace(SubSeq(t, i + 1, Len(t)))

(***************************************************************************)
(* The tokenizers (the external library, as this module uses it).           *)
(***************************************************************************)
\* is_fast: the attribute read at lines 145 and 231.  family: "bert" cuts a
\* word into WordPiece subwords and adds [CLS] and [SEP]; "albert" cuts it
\* into SentencePiece subwords and adds [CLS] and [SEP]; "gpt2" cuts it into
\* unmarked subwords and adds no special token.
Tokenizers == [is_fast : BOOLEAN, family : {"bert", "albert", "gpt2"}]

\* whether encode_plus adds a special token in first and in last position
AddsSpecialTokens(tokenizer) == tokenizer.family # "gpt2"

\* The marker characters U+0120 and U+2581 of SPECIAL_TOKENIZER_CHARS, each
\* one character of a token.
GDot == "U+0120"
LowerBlock == "U+2581"

UnkToken == <<"[", "U", "N", "K", "]">>
ClsToken == <<"[", "C", "L", "S", "]">>
SepToken == <<"[", "S", "E", "P", "]">>

\* w cut into pieces of at most k characters
RECURSIVE Chunks(_, _)
Chunks(w, k) ==
    IF Len(w) <= k THEN <<w>>
    ELSE <<SubSeq(w, 1, k)>> \o Chunks(SubSeq(w, k + 1, Len(w)), k)

\* tokenizer.tokenize(w) for a non-empty word w: WordPiece marks every piece
\* but the first with "##" and gives the unknown token for a word with a
\* character outside the vocabulary; SentencePiece marks the first piece
\* with U+2581; the third family leaves the pieces unmarked.
Tokenize(tokenizer, w) ==
    LET cs == Chunks(w, PieceLen)
    IN  IF tokenizer.family = "bert"
        THEN IF \E i \in DOMAIN w : w[i] = "?"
             THEN <<UnkToken>>
             ELSE [j \in DOMAIN cs |-> IF j = 1 THEN cs[j] ELSE <<"#", "#">> \o cs[j]]
        ELSE IF tokenizer.family = "albert"
        THEN [j \in DOMAIN cs |-> IF j = 1 THEN <<LowerBlock>> \o cs[j] ELSE cs[j]]
        ELSE cs

\* One token of a fast tokenizer's encoding: the token, the character offset
\* at which it starts (offset_mapping's first component) and the index of its
\* source word (encodings[0].words), None for a special token.
RECURSIVE EncodeWords(_, _, _, _, _)
EncodeWords(tokenizer, words, i, off, wid) ==
    IF i > Len(words) THEN <<>>
    ELSE LET w == words[i]
             toks == Tokenize(tokenizer, w)
         IN  IF Len(w) = 0
             THEN EncodeWords(tokenizer, words, i + 1, off + 1, wid)
             ELSE [j \in DOMAIN toks |->
                      [token |-> toks[j],
                       offset |-> off + (j - 1) * PieceLen,
                       word |-> Word(wid)]]
                  \o EncodeWords(tokenizer, words, i + 1, off + Len(w) + 1, wid + 1)

\* tokenizer.encode_plus(text, return_offsets_mapping=True, ...) of a fast
\* tokenizer: the words are the maximal runs without whitespace.
EncodePlus(tokenizer, text, add_special_tokens) ==
    LET body == EncodeWords(tokenizer, SplitSpace(NormalizeWhitespace(text)), 1, 0, 0)
    IN  IF add_special_tokens /\ AddsSpecialTokens(tokenizer)
        THEN <<[token |-> ClsToken, offset |-> 0, word |-> None]>>
             \o body
             \o <<[token |-> SepToken, offset |-> 0, word |-> None]>>
        ELSE body

(***************************************************************************)
(* tokenize_with_metadata and _words_to_tokens.                             *)
(***************************************************************************)
\* What a call gives back: a returned dictionary or a raised exception.
Returned(tokens, offsets, start_of_word) ==
    [kind |-> "return", exc |-> "", tokens |-> tokens, offsets |-> offsets,
     start_of_word |-> start_of_word]
Raised(exc) ==
    [kind |-> "raise", exc |-> exc, tokens |-> <<>>, offsets |-> <<>>,
     start_of_word |-> <<>>]

\* re.sub(SPECIAL_TOKENIZER_CHARS, "", tok): one leading ##, U+0120 or
\* U+2581 removed
StripMarker(tok) ==
    IF Len(tok) >= 2 /\ tok[1] = "#" /\ tok[2] = "#" THEN SubSeq(tok, 3, Len(tok))
    ELSE IF Len(tok) >= 1 /\ tok[1] \in {GDot, LowerBlock} THEN SubSeq(tok, 2, Len(tok))
    ELSE tok

\* the inner loop of _words_to_tokens: the offset of each token of one word
RECURSIVE TokenOffsets(_, _, _)
TokenOffsets(tokens_word, j, w_off) ==
    IF j > Len(tokens_word) THEN <<>>
    ELSE LET orig_tok == StripMarker(tokens_word[j])
         IN  <<w_off>> \o TokenOffsets(tokens_word, j + 1,
                              IF orig_tok = UnkToken THEN w_off + 1
                              ELSE w_off + Len(orig_tok))

\* the first token of a word is marked True, the others False
WordStarts(tokens_word) == [j \in DOMAIN tokens_word |-> j = 1]

\* the outer loop of _words_to_tokens from word i on
RECURSIVE WordsToTokensFrom(_, _, _, _, _, _, _)
WordsToTokensFrom(words, word_offsets, tokenizer, i, tokens, token_offsets, start_of_word) ==
    IF i > Len(words) THEN Returned(tokens, token_offsets, start_of_word)
    ELSE IF Len(words[i]) = 0
    THEN WordsToTokensFrom(words, word_offsets, tokenizer, i + 1,
                           tokens, token_offsets, start_of_word)
    ELSE IF Len(tokens) # 0 /\ ~IsBound("RobertaTokenizer")
    THEN \* `type(tokenizer) == RobertaTokenizer` looks an unbound name up
         Raised("NameError")
    ELSE LET tokens_word == Tokenize(tokenizer, words[i])
         IN  IF Len(tokens_word) = 0
             THEN WordsToTokensFrom(words, word_offsets, tokenizer, i + 1,
                                    tokens, token_offsets, start_of_word)
             ELSE WordsToTokensFrom(words, word_offsets, tokenizer, i + 1,
                      tokens \o tokens_word,
                      token_offsets \o TokenOffsets(tokens_word, 1, word_offsets[i]),
                      start_of_word \o WordStarts(tokens_word))

WordsToTokens(words, word_offsets, tokenizer) ==
    WordsToTokensFrom(words, word_offsets, tokenizer, 1, <<>>, <<>>, <<>>)

\* word_offsets of the slow path: cumulated += len(word) + 1
RECURSIVE WordOffsets(_, _, _)
WordOffsets(words, i, cumulated) ==
    IF i > Len(words) THEN <<>>
    ELSE <<cumulated>> \o WordOffsets(words, i + 1, cumulated + Len(words[i]) + 1)

\* a faulty variant: the first position is marked as a word start
FastStartOfWordFirstMarked(word_ids) ==
    LET n == Len(word_ids)
        w1 == [word_ids EXCEPT ![1] = Word(-1)]
        w2 == [w1 EXCEPT ![n] = w1[n - 1]]
        shifted == [i \in 1..n |-> w2[i].id + 1]
    IN  <<1>> \o Ediff1d(shifted)

\* the fast path's start_of_word2, from the word indices of the encoding
FastStartOfWord(word_ids) ==
    LET n == Len(word_ids)
        w1 == [word_ids EXCEPT ![1] = Word(-1)]
        w2 == [w1 EXCEPT ![n] = w1[n - 1]]
        shifted == [i \in 1..n |-> w2[i].id + 1]
    IN  <<0>> \o Ediff1d(shifted)

tokenize_with_metadata(text, tokenizer) ==
    LET norm == NormalizeWhitespace(text)
    IN  IF tokenizer.is_fast
        THEN LET tokenized2 == EncodePlus(tokenizer, norm, TRUE)
                 n == Len(tokenized2)
                 words == [i \in 1..n |-> tokenized2[i].word]
             IN  IF n < 2
                 THEN \* words[0] or words[-2] is out of range
                      Raised("IndexError")
                 ELSE IF \E i \in 2..(n - 1) : words[i] = None
                 THEN \* words += 1 adds 1 to None
                      Raised("TypeError")
                 ELSE Returned([i \in 1..n |-> tokenized2[i].token],
                               [i \in 1..n |-> tokenized2[i].offset],
                               FastStartOfWord(words))
        ELSE LET words == SplitSpace(norm)
             IN  WordsToTokens(words, WordOffsets(words, 1, 0), tokenizer)

(***************************************************************************)
(* tokenize_batch_question_answering.                                       *)
(***************************************************************************)
\* the texts of the question-answering data: the empty text and a text of
\* two words, the first of them cut into two subwords
QATexts == {<<>>, <<"a", "a", "a", " ", "a">>}
Questions == [question : QATexts, id : {"q"}]
QasLists == UNION {[1..n -> Questions] : n \in 0..MaxQuestions}
PreBaskets == [context : QATexts, qas : QasLists]
Batches == UNION {[1..n -> PreBaskets] : n \in 0..MaxDocs}

\* str(n) of a natural number: its decimal digits
Digits == <<"0", "1", "2", "3", "4", "5", "6", "7", "8", "9">>
RECURSIVE Str(_)
Str(n) == IF n < 10 THEN <<Digits[n + 1]>> ELSE Str(n \div 10) \o <<Digits[(n % 10) + 1]>>

\* a faulty variant: the position of the document in its batch, not its index
InternalIdOfPosition(indices, i_doc, i_q) == Str(i_doc) \o <<"-">> \o Str(i_q)

\* f"{indices[i_doc]}-{i_q}"; i_doc and i_q count from 0
InternalId(indices, i_doc, i_q) == Str(indices[i_doc + 1]) \o <<"-">> \o Str(i_q)

_get_start_of_word_QA(word_ids) == <<1>> \o Ediff1d(word_ids)

\* the word indices of an encoding made without special tokens
WordIds(enc) == [i \in DOMAIN enc |-> enc[i].word.id]

\* the SampleBasket appended for question i_q of document i_doc
Basket(pre_baskets, tokenizer, indices, i_doc, i_q) ==
    LET d == pre_baskets[i_doc + 1]
        q == d.qas[i_q + 1]
        doc == EncodePlus(tokenizer, d.context, FALSE)
        tokenized_q == EncodePlus(tokenizer, q.question, FALSE)
    IN  [id_internal |-> InternalId(indices, i_doc, i_q),
         id_external |-> q.id,
         raw |-> [document_text |-> d.context,
                  document_tokens |-> [i \in DOMAIN doc |-> doc[i].token],
                  document_offsets |-> [i \in DOMAIN doc |-> doc[i].offset],
                  document_start_of_word |-> _get_start_of_word_QA(WordIds(doc)),
                  question_text |-> q.question,
                  question_tokens |-> [i \in DOMAIN tokenized_q |-> tokenized_q[i].token],
                  question_offsets |-> [i \in DOMAIN tokenized_q |-> tokenized_q[i].offset],
                  question_start_of_word |-> _get_start_of_word_QA(WordIds(tokenized_q))]]

\* a faulty variant: the basket is appended after the loop over the questions,
\* once per document with a question
QuestionBasketsOncePerDocument(pre_baskets, tokenizer, indices, i_doc, i_q) ==
    IF i_q >= Len(pre_baskets[i_doc + 1].qas) THEN <<>>
    ELSE <<Basket(pre_baskets, tokenizer, indices, i_doc,
                  Len(pre_baskets[i_doc + 1].qas) - 1)>>

\* the inner loop: the baskets of document i_doc from question i_q on
RECURSIVE QuestionBaskets(_, _, _, _, _)
QuestionBaskets(pre_baskets, tokenizer, indices, i_doc, i_q) ==
    IF i_q >= Len(pre_baskets[i_doc + 1].qas) THEN <<>>
    ELSE <<Basket(pre_baskets, tokenizer, indices, i_doc, i_q)>>
         \o QuestionBaskets(pre_baskets, tokenizer, indices, i_doc, i_q + 1)

\* the outer loop: the baskets of the documents from i_doc on
RECURSIVE DocumentBaskets(_, _, _, _)
DocumentBaskets(pre_baskets, tokenizer, indices, i_doc) ==
    IF i_doc >= Len(pre_baskets) THEN <<>>
    ELSE QuestionBaskets(pre_baskets, tokenizer, indices, i_doc, 0)
         \o DocumentBaskets(pre_baskets, tokenizer, indices, i_doc + 1)

tokenize_batch_question_answering(pre_baskets, tokenizer, indices) ==
    IF Len(indices) # Len(pre_baskets) \/ ~tokenizer.is_fast
    THEN [kind |-> "raise", exc |-> "AssertionError", baskets |-> <<>>]
    ELSE [kind |-> "return", exc |-> "",
          baskets |-> DocumentBaskets(pre_baskets, tokenizer, indices, 0)]

(***************************************************************************)
(* get_tokenizer and _infer_tokenizer_classname.                            *)
(***************************************************************************)
\* The exception classes of the model and their base classes (Python's
\* built-in hierarchy); `except H` catches e iff H is e or a base of e.
Bases(exc) ==
    CASE exc = "UnboundLocalError" -> {"UnboundLocalError", "NameError", "Exception"}
      [] exc = "NotImplementedError" -> {"NotImplementedError", "RuntimeError", "Exception"}
      [] exc = "IndexError" -> {"IndexError", "LookupError", "Exception"}
      [] OTHER -> {exc, "Exception"}
Catches(handler, exc) == handler \in Bases(exc)

\* sub in s, for strings as sequences of characters
Contains(sub, s) ==
    \E i \in 1..(Len(s) - Len(sub) + 1) : SubSeq(s, i, i + Len(sub) - 1) = sub

\* str.lower() on the letters the model names use
Lower(str) ==
    [i \in DOMAIN str |-> CASE str[i] = "M" -> "m" [] str[i] = "L" -> "l" [] OTHER -> str[i]]

\* the model names handed to the resolver: "roberta", "codebert-MLM",
\* "bert" and "qa"
ModelNames ==
    {<<"r", "o", "b", "e", "r", "t", "a">>,
     <<"c", "o", "d", "e", "b", "e", "r", "t", "-", "M", "L", "M">>,
     <<"b", "e", "r", "t">>,
     <<"q", "a">>}

\* haystack.modeling.model._mappings.TOKENIZERS_MAPPING: model type -> class
TOKENIZERS_MAPPING == [bert |-> "Bert", roberta |-> "Roberta"]

\* haystack.modeling.model._mappings.TOKENIZERS_STRING_HINTS, in its order
TOKENIZERS_STRING_HINTS ==
    <<[key |-> <<"r", "o", "b", "e", "r", "t", "a">>, value |-> "Roberta"],
      [key |-> <<"c", "o", "d", "e", "b", "e", "r", "t">>, value |-> "Roberta"],
      [key |-> <<"b", "e", "r", "t">>, value |-> "Bert"]>>

\* the classes getattr(transformers, ...) finds, as <<class name, suffix>>
TransformersClasses ==
    {"Bert", "Roberta", "DPRQuestionEncoder", "DPRContextEncoder"}
        \X {"Tokenizer", "TokenizerFast"}

\* What AutoConfig.from_pretrained gives: a configuration (model_type,
\* architectures[0]) or an exception.
Configs ==
    [kind : {"ok"}, exc : {""}, model_type : {"bert", "roberta", "custom"},
     architecture : {"Other"}]
    \cup [kind : {"ok"}, exc : {""}, model_type : {"dpr"},
          architecture : {"DPRQuestionEncoder", "DPRContextEncoder", "DPRReader", "Other"}]
ConfigError(exc) == [kind |-> "raise", exc |-> exc, model_type |-> "", architecture |-> ""]

\* The world a resolution runs in: the outcome of loading the configuration
\* at the given path (absent: OSError), of loading it under the name
\* language_model_config.json, and of the class's from_pretrained.
Envs ==
    [config : Configs \cup {ConfigError("OSError"), ConfigError("ValueError")},
     lm_config : Configs \cup {ConfigError("OSError")},
     from_pretrained : {"ok", "OSError"}]

Value(v) == [kind |-> "return", exc |-> "", cause |-> "", value |-> v]
Raise(exc) == [kind |-> "raise", exc |-> exc, cause |-> "", value |-> "None"]
RaiseFrom(exc, cause) == [kind |-> "raise", exc |-> exc, cause |-> cause, value |-> "None"]

\* candidates: the values of the hints found in the model name, in order
Candidates(name) ==
    SelectSeq(TOKENIZERS_STRING_HINTS, LAMBDA h : Contains(h.key, name))

\* lines 101-127: from `if not tokenizer_classname` to the return, with the
\* local variables `locals` bound
InferFromConfig(name, locals, config, tokenizer_classname) ==
    IF "tokenizer_classname" \notin locals
    THEN Raise("UnboundLocalError")
    ELSE IF tokenizer_classname # "None"
    THEN Value(tokenizer_classname)
    ELSE IF config.model_type = "dpr"
    THEN CASE config.architecture = "DPRQuestionEncoder" -> Value("DPRQuestionEncoder")
           [] config.architecture = "DPRContextEncoder" -> Value("DPRContextEncoder")
           [] config.architecture = "DPRReader" -> Raise("NotImplementedError")
           [] OTHER -> Value("None")
    ELSE LET candidates == Candidates(name)
         IN  IF Len(candidates) = 0
             THEN Raise("ValueError")
             ELSE IF candidates[1].value = "Roberta"
                     /\ Contains(<<"m", "l", "m">>, Lower(name))
             THEN Raise("NotImplementedError")
             ELSE Value(candidates[1].value)

_infer_tokenizer_classname(name, env) ==
    IF env.config.kind = "ok"
    THEN \* the try succeeded: only `config` is bound
         InferFromConfig(name, {"config"}, env.config, "None")
    ELSE IF ~Catches("OSError", env.config.exc)
    THEN Raise(env.config.exc)
    ELSE IF env.lm_config.kind = "ok"
    THEN InferFromConfig(name, {"config", "model_type", "tokenizer_classname"},
             env.lm_config,
             IF env.lm_config.model_type \in DOMAIN TOKENIZERS_MAPPING
             THEN TOKENIZERS_MAPPING[env.lm_config.model_type] ELSE "None")
    ELSE IF ~IsBound("Tokenizer")
    THEN \* `Tokenizer._infer_tokenizer_class_from_string` looks an unbound name up
         Raise("NameError")
    ELSE IF Len(Candidates(name)) = 0 THEN Raise("ValueError")
    ELSE Value(Candidates(name)[1].value)

\* lines 62-73: the body of the try of get_tokenizer
GetTokenizerBody(name, tokenizer_classname, use_fast, env) ==
    LET inferred == IF tokenizer_classname = "None"
                    THEN _infer_tokenizer_classname(name, env)
                    ELSE Value(tokenizer_classname)
        suffix == IF use_fast THEN "TokenizerFast" ELSE "Tokenizer"
    IN  IF inferred.kind = "raise" THEN inferred
        ELSE IF inferred.value = "None"
        THEN Raise("TypeError")         \* None + suffix
        ELSE IF <<inferred.value, suffix>> \notin TransformersClasses
        THEN Raise("AttributeError")    \* None.from_pretrained
        ELSE IF env.from_pretrained # "ok"
        THEN Raise(env.from_pretrained)
        ELSE Value(<<inferred.value, suffix>>)

\* a faulty variant: the handler catches OSError only
get_tokenizer_except_oserror(name, tokenizer_classname, use_fast, env) ==
    LET r == GetTokenizerBody(name, tokenizer_classname, use_fast, env)
    IN  IF r.kind = "raise" /\ Catches("OSError", r.exc)
        THEN RaiseFrom("ModelingError", r.exc)
        ELSE r

get_tokenizer(name, tokenizer_classname, use_fast, env) ==
    LET r == GetTokenizerBody(name, tokenizer_classname, use_fast, env)
    IN  IF r.kind = "raise" /\ Catches("Exception", r.exc)
        THEN RaiseFrom("ModelingError", r.exc)
        ELSE r

(***************************************************************************)
(* truncate_sequences.                                                      *)
(***************************************************************************)
\* an optional sequence: Python's None or a list
NoSeq == [some |-> FALSE, items |-> <<>>]
SomeSeq(l) == [some |-> TRUE, items |-> l]

ButLast(l) == SubSeq(l, 1, Len(l) - 1)
Min(a, b) == IF a < b THEN a ELSE b

Truncated(seq_a, seq_b, overflowing_tokens) ==
    [kind |-> "return", exc |-> "", seq_a |-> seq_a, seq_b |-> seq_b,
     overflowing_tokens |-> overflowing_tokens]
TruncateRaised(exc) ==
    [kind |-> "raise", exc |-> exc, seq_a |-> <<>>, seq_b |-> NoSeq,
     overflowing_tokens |-> <<>>]

\* tokenizer.num_special_tokens_to_add(pair): [CLS] A [SEP] or
\* [CLS] A [SEP] B [SEP]
NumSpecialTokensToAdd(tokenizer, pair) ==
    IF AddsSpecialTokens(tokenizer) THEN (IF pair THEN 3 ELSE 2) ELSE 0

\* tokenizer.truncate_sequences(ids, pair_ids, num_tokens_to_remove,
\* "longest_first", stride), as the docstring of truncate_sequences states
\* it: one token at a time is removed from the end of the longer sequence
\* (of ids when there is no pair); the overflowing tokens are those removed
\* from ids, preceded by the last `stride` tokens kept.
RECURSIVE TokenizerTruncate(_, _, _, _, _)
TokenizerTruncate(ids, pair_ids, num_tokens_to_remove, stride, overflowing_tokens) ==
    IF num_tokens_to_remove <= 0
    THEN LET window_len == Min(Len(ids), stride)
         IN  Truncated(ids, pair_ids,
                       SubSeq(ids, Len(ids) - window_len + 1, Len(ids)) \o overflowing_tokens)
    ELSE IF ~pair_ids.some \/ Len(ids) > Len(pair_ids.items)
    THEN IF Len(ids) = 0
         THEN TruncateRaised("IndexError")
         ELSE TokenizerTruncate(ButLast(ids), pair_ids, num_tokens_to_remove - 1, stride,
                                <<ids[Len(ids)]>> \o overflowing_tokens)
    ELSE TokenizerTruncate(ids, SomeSeq(ButLast(pair_ids.items)),
                           num_tokens_to_remove - 1, stride, overflowing_tokens)

\* a faulty variant: the special tokens are not counted
truncate_sequences_no_special(seq_a, seq_b, tokenizer, max_seq_len, with_special_tokens, stride) ==
    LET total_len == Len(seq_a) + Len(seq_b.items)
    IN  IF max_seq_len # 0 /\ total_len > max_seq_len
        THEN TokenizerTruncate(seq_a, seq_b, total_len - max_seq_len, stride, <<>>)
        ELSE Truncated(seq_a, seq_b, <<>>)

\* truncate_sequences with truncation_strategy="longest_first"
truncate_sequences(seq_a, seq_b, tokenizer, max_seq_len, with_special_tokens, stride) ==
    LET pair == seq_b.some
        len_a == Len(seq_a)
        len_b == IF seq_b.some THEN Len(seq_b.items) ELSE 0
        num_special_tokens ==
            IF with_special_tokens THEN NumSpecialTokensToAdd(tokenizer, pair) ELSE 0
        total_len == len_a + len_b + num_special_tokens
    IN  IF max_seq_len # 0 /\ total_len > max_seq_len
        THEN TokenizerTruncate(seq_a, seq_b, total_len - max_seq_len, stride, <<>>)
        ELSE Truncated(seq_a, seq_b, <<>>)

(***************************************************************************)
(* State.                                                                   *)
(***************************************************************************)
\* no call is in progress
NoCall == [fn |-> "none"]
\* the pool has no dataset
IdlePool == [state |-> "idle"]
Workers == {1, 2}
\* a worker that has not run its batch yet
Pending == [kind |-> "pending", exc |-> "", baskets |-> <<>>]

\* the sequences handed to truncate_sequences: seq_a is 1, 2, .., n and
\* seq_b is 11, 12, .., 10 + n
SeqsA == {[i \in 1..n |-> i] : n \in 0..MaxSeq}
SeqsB == {[i \in 1..n |-> 10 + i] : n \in 0..MaxSeq}

\* the batch indices the pool assigns: 0, 5, 10, .., so that indices of one
\* and of two digits occur
IndexValues == {5 * i : i \in 0..MaxIndex}
IndexLists == UNION {[1..n -> IndexValues] : n \in 0..MaxDocs}
NoDuplicates(l) == \A i, j \in DOMAIN l : i # j => l[i] # l[j]
NumQuestions(batch, i) == Len(batch[i].qas)
RECURSIVE TotalQuestions(_, _)
TotalQuestions(batch, i) ==
    IF i > Len(batch) THEN 0 ELSE NumQuestions(batch, i) + TotalQuestions(batch, i + 1)

Init ==
    /\ call = NoCall
    /\ pool = IdlePool

\* a caller tokenizes one text
TokenizeWithMetadata ==
    /\ call = NoCall
    /\ pool = IdlePool
    /\ \E text \in Texts, tokenizer \in Tokenizers :
        /\ call' = [fn |-> "tokenize_with_metadata", text |-> text,
                    tokenizer |-> tokenizer,
                    result |-> tokenize_with_metadata(text, tokenizer)]
        /\ UNCHANGED pool

\* a caller resolves the tokenizer class of a model
InferTokenizerClassname ==
    /\ call = NoCall
    /\ pool = IdlePool
    /\ \E name \in ModelNames, env \in Envs :
        /\ env.from_pretrained = "ok"
        /\ call' = [fn |-> "_infer_tokenizer_classname", name |-> name, env |-> env,
                    result |-> _infer_tokenizer_classname(name, env)]
        /\ UNCHANGED pool

\* a caller loads a tokenizer
GetTokenizer ==
    /\ call = NoCall
    /\ pool = IdlePool
    /\ \E name \in ModelNames, tokenizer_classname \in {"None", "Bert", "NoSuch"},
          use_fast \in BOOLEAN, env \in Envs :
        /\ call' = [fn |-> "get_tokenizer", name |-> name,
                    tokenizer_classname |-> tokenizer_classname,
                    use_fast |-> use_fast, env |-> env,
                    result |-> get_tokenizer(name, tokenizer_classname, use_fast, env)]
        /\ UNCHANGED pool

\* a caller truncates a sequence (seq_b is None) or a pair of sequences
TruncateSequences ==
    /\ call = NoCall
    /\ pool = IdlePool
    /\ \E seq_a \in SeqsA, seq_b \in {NoSeq} \cup {SomeSeq(l) : l \in SeqsB},
          tokenizer \in Tokenizers, max_seq_len \in 0..MaxSeqLen,
          with_special_tokens \in BOOLEAN, stride \in 0..MaxStride :
        /\ call' = [fn |-> "truncate_sequences", seq_a |-> seq_a, seq_b |-> seq_b,
                    tokenizer |-> tokenizer, max_seq_len |-> max_seq_len,
                    with_special_tokens |-> with_special_tokens, stride |-> stride,
                    result |-> truncate_sequences(seq_a, seq_b, tokenizer, max_seq_len,
                                                  with_special_tokens, stride)]
        /\ UNCHANGED pool

\* the caller takes the outcome of its call
Done ==
    /\ call # NoCall
    /\ call' = NoCall
    /\ UNCHANGED pool

\* The pool cuts a dataset, whose documents carry the indices `indices`
\* (no index twice), into the batch of worker 1 (the first k documents)
\* and the batch of worker 2 (the others).
Submit ==
    /\ call = NoCall
    /\ pool = IdlePool
    /\ \E dataset \in Batches :
        /\ TotalQuestions(dataset, 1) <= MaxQuestions
        /\ \E indices \in IndexLists, k \in 0..Len(dataset), tokenizer \in Tokenizers :
            /\ Len(indices) = Len(dataset)
            /\ NoDuplicates(indices)
            /\ pool' = [state |-> "busy",
                        tokenizer |-> tokenizer,
                        pre_baskets |-> (1 :> SubSeq(dataset, 1, k)
                                         @@ 2 :> SubSeq(dataset, k + 1, Len(dataset))),
                        indices |-> (1 :> SubSeq(indices, 1, k)
                                     @@ 2 :> SubSeq(indices, k + 1, Len(indices))),
                        result |-> [w \in Workers |-> Pending]]
            /\ UNCHANGED call

\* worker w tokenizes its batch
RunWorker(w) ==
    /\ pool.state = "busy"
    /\ pool.result[w].kind = "pending"
    /\ pool' = [pool EXCEPT !.result[w] =
                   tokenize_batch_question_answering(
                       pool.pre_baskets[w], pool.tokenizer, pool.indices[w])]
    /\ UNCHANGED call

\* the pool hands the baskets of both workers on
Collect ==
    /\ pool.state = "busy"
    /\ \A w \in Workers : pool.result[w].kind # "pending"
    /\ pool' = IdlePool
    /\ UNCHANGED call

Next ==
    \/ TokenizeWithMetadata
    \/ InferTokenizerClassname
    \/ GetTokenizer
    \/ TruncateSequences
    \/ Done
    \/ Submit
    \/ \E w \in Workers : RunWorker(w)
    \/ Collect

Spec == Init /\ [][Next]_vars

(***************************************************************************)
(* The claims.                                                              *)
(***************************************************************************)
IsTwm == call.fn = "tokenize_with_metadata"
TwmReturned == IsTwm /\ call.result.kind = "return"

RECURSIVE Concat(_)
Concat(seqs) == IF Len(seqs) = 0 THEN <<>> ELSE Head(seqs) \o Concat(Tail(seqs))

\* every space-separated word of the text is cut into subwords that, without
\* their markers, concatenate to the word
SplitsExactly(text, tokenizer) ==
    LET words == SplitSpace(NormalizeWhitespace(text))
    IN  \A i \in DOMAIN words :
            Len(words[i]) > 0 =>
                LET toks == Tokenize(tokenizer, words[i])
                IN  Concat([j \in DOMAIN toks |-> StripMarker(toks[j])]) = words[i]

\* the characters of tok stand in text from the 0-based index off on
BeginsAt(text, tok, off) ==
    /\ off >= 0
    /\ off + Len(tok) <= Len(text)
    /\ SubSeq(text, off + 1, off + Len(tok)) = tok

\* C1: on the slow path, for every text whose words the tokenizer cuts into
\* subwords that concatenate to the word, the call returns, every offset is
\* the index in the text at which the token's characters begin, and the
\* offsets are non-decreasing.
C1_SlowPathOffsets ==
    (IsTwm /\ ~call.tokenizer.is_fast /\ SplitsExactly(call.text, call.tokenizer)) =>
        /\ call.result.kind = "return"
        /\ \A i \in DOMAIN call.result.tokens :
               BeginsAt(NormalizeWhitespace(call.text),
                        StripMarker(call.result.tokens[i]), call.result.offsets[i])
        /\ \A i, j \in DOMAIN call.result.offsets :
               i <= j => call.result.offsets[i] <= call.result.offsets[j]

SameLength(tokens, offsets, start_of_word) ==
    Len(tokens) = Len(offsets) /\ Len(offsets) = Len(start_of_word)

\* C2: tokens, offsets and start_of_word have the same length in every
\* result of tokenize_with_metadata and in the document arrays and the
\* question arrays of every basket of tokenize_batch_question_answering.
C2_SameLength ==
    /\ TwmReturned =>
           SameLength(call.result.tokens, call.result.offsets, call.result.start_of_word)
    /\ pool.state = "busy" =>
           \A w \in Workers : \A i \in DOMAIN pool.result[w].baskets :
               LET raw == pool.result[w].baskets[i].raw
               IN  /\ SameLength(raw.document_tokens, raw.document_offsets,
                                 raw.document_start_of_word)
                   /\ SameLength(raw.question_tokens, raw.question_offsets,
                                 raw.question_start_of_word)

\* C3 as stated: whenever tokenize_with_metadata returns at least one token,
\* the first element of start_of_word marks a word start (True on the slow
\* path, nonzero on the fast path).
C3_FirstTokenIsWordStart ==
    (TwmReturned /\ Len(call.result.tokens) >= 1) =>
        IF call.tokenizer.is_fast
        THEN call.result.start_of_word[1] # 0
        ELSE call.result.start_of_word[1] = TRUE

\* C3 as amended: whenever tokenize_with_metadata returns at least one token,
\* on the slow path the first element of start_of_word is True; on the fast
\* path with a tokenizer that adds special tokens the first element, which
\* belongs to the special token, is 0 and, when the text has a token, the
\* second element, which belongs to the first token of the text, is positive.
C3_FirstWordStart ==
    (TwmReturned /\ Len(call.result.tokens) >= 1) =>
        IF call.tokenizer.is_fast
        THEN AddsSpecialTokens(call.tokenizer) =>
                 /\ call.result.start_of_word[1] = 0
                 /\ Len(call.result.tokens) >= 3 => call.result.start_of_word[2] > 0
        ELSE call.result.start_of_word[1] = TRUE

\* C3's case: a fast tokenizer with special tokens returned the tokens of a
\* text that is not empty
C3_Witness ==
    /\ TwmReturned
    /\ call.tokenizer.is_fast
    /\ AddsSpecialTokens(call.tokenizer)
    /\ Len(call.result.tokens) >= 3

WorkerReturned(w) == pool.state = "busy" /\ pool.result[w].kind = "return"

\* C4 as stated: tokenize_batch_question_answering returns exactly one basket
\* per document of its batch.
C4_OneBasketPerDocument ==
    \A w \in Workers :
        WorkerReturned(w) => Len(pool.result[w].baskets) = Len(pool.pre_baskets[w])

\* the <<document, question>> positions of a batch, in the order of the loops
RECURSIVE QuestionPositions(_, _)
QuestionPositions(batch, i) ==
    IF i > Len(batch) THEN <<>>
    ELSE [j \in 1..Len(batch[i].qas) |-> <<i, j>>] \o QuestionPositions(batch, i + 1)

\* C4 as amended: tokenize_batch_question_answering returns exactly one
\* basket per question: as many baskets as the documents of the batch have
\* questions together (none for a document without questions), in the order
\* of the documents and of their questions, each with the text of its
\* document and of its one question.
C4_OneBasketPerQuestion ==
    \A w \in Workers :
        WorkerReturned(w) =>
            LET batch == pool.pre_baskets[w]
                baskets == pool.result[w].baskets
                at == QuestionPositions(batch, 1)
            IN  /\ Len(baskets) = TotalQuestions(batch, 1)
                /\ Len(baskets) = Len(at)
                /\ \A k \in DOMAIN baskets :
                       /\ baskets[k].raw.document_text = batch[at[k][1]].context
                       /\ baskets[k].raw.question_text =
                              batch[at[k][1]].qas[at[k][2]].question

\* C4's case: a worker returned the baskets of a batch of one document that
\* has two questions
C4_Witness ==
    \E w \in Workers :
        /\ WorkerReturned(w)
        /\ Len(pool.pre_baskets[w]) = 1
        /\ Len(pool.pre_baskets[w][1].qas) = 2
        /\ Len(pool.result[w].baskets) = 2

\* C5: the baskets the two workers produce from batches with disjoint index
\* lists free of duplicates have pairwise different internal ids.
C5_InternalIdsUnique ==
    pool.state = "busy" =>
        \A w1, w2 \in Workers :
            \A i \in DOMAIN pool.result[w1].baskets, j \in DOMAIN pool.result[w2].baskets :
                (w1 # w2 \/ i # j) =>
                    pool.result[w1].baskets[i].id_internal
                        # pool.result[w2].baskets[j].id_internal

\* C5's case: both workers returned baskets, each for its first document
C5_Witness ==
    /\ \A w \in Workers : WorkerReturned(w) /\ Len(pool.result[w].baskets) >= 1
    /\ \A i \in DOMAIN pool.indices[1], j \in DOMAIN pool.indices[2] :
           pool.indices[1][i] # pool.indices[2][j]

IsInfer == call.fn = "_infer_tokenizer_classname"

\* C6: when the configuration loads from the given path and the mapping has
\* an entry for its model type, the resolver returns that entry.
C6_MappingOfLoadedConfig ==
    (IsInfer /\ call.env.config.kind = "ok"
        /\ call.env.config.model_type \in DOMAIN TOKENIZERS_MAPPING) =>
        /\ call.result.kind = "return"
        /\ call.result.value = TOKENIZERS_MAPPING[call.env.config.model_type]

\* C7: for a model name that contains a hint, when no configuration can be
\* retrieved at the given path nor under the secondary name, the resolver
\* returns a class mapped to a hint of the name and raises nothing.
C7_HintOfModelName ==
    (IsInfer /\ call.env.config = ConfigError("OSError")
        /\ call.env.lm_config.kind = "raise"
        /\ Len(Candidates(call.name)) > 0) =>
        /\ call.result.kind = "return"
        /\ \E k \in DOMAIN Candidates(call.name) :
               call.result.value = Candidates(call.name)[k].value

IsGetTokenizer == call.fn = "get_tokenizer"

\* C8: get_tokenizer returns a tokenizer, or raises ModelingError with the
\* original exception, never a ModelingError itself, as its cause.
C8_OnlyModelingError ==
    IsGetTokenizer =>
        \/ /\ call.result.kind = "return"
           /\ call.result.value \in TransformersClasses
        \/ /\ call.result.kind = "raise"
           /\ call.result.exc = "ModelingError"
           /\ call.result.cause \notin {"", "ModelingError"}

\* C8's case: the inference found no candidate (ValueError) and the caller
\* got ModelingError
C8_Witness ==
    /\ IsGetTokenizer
    /\ call.tokenizer_classname = "None"
    /\ call.result.exc = "ModelingError"
    /\ call.result.cause = "ValueError"

IsTruncate == call.fn = "truncate_sequences"
Reserved ==
    IF call.with_special_tokens
    THEN NumSpecialTokensToAdd(call.tokenizer, call.seq_b.some) ELSE 0

\* the result fits, and of a single sequence the prefix is kept and (with no
\* stride) the removed tail is the overflow
FitsAndKeepsPrefix ==
    /\ call.result.kind = "return"
    /\ Len(call.result.seq_a) + Len(call.result.seq_b.items) + Reserved
           <= call.max_seq_len
    /\ ~call.seq_b.some =>
           /\ call.result.seq_a = SubSeq(call.seq_a, 1, Len(call.result.seq_a))
           /\ call.stride = 0 =>
                  call.result.seq_a \o call.result.overflowing_tokens = call.seq_a

\* C9 as stated: for every max_seq_len that is at least the number of special
\* tokens reserved, the returned sequences and the reserved special tokens
\* fit into max_seq_len.
C9_TruncatesToFit ==
    (IsTruncate /\ call.max_seq_len >= Reserved) => FitsAndKeepsPrefix

\* C9 as amended: the same for every max_seq_len that is not 0 and is at
\* least the number of special tokens reserved.
C9_TruncatesToFitNonZero ==
    (IsTruncate /\ call.max_seq_len # 0 /\ call.max_seq_len >= Reserved) =>
        FitsAndKeepsPrefix

\* C9's case: a single sequence of five was cut to its first three
C9_Witness ==
    /\ IsTruncate
    /\ ~call.seq_b.some
    /\ call.seq_a = <<1, 2, 3, 4, 5>>
    /\ call.max_seq_len = 3
    /\ ~call.with_special_tokens
    /\ call.result.seq_a = <<1, 2, 3>>
    /\ call.result.overflowing_tokens = <<4, 5>>

\* C10: on the fast path start_of_word is 0 for every special token and for
\* every token of the word of its predecessor, and positive for the first
\* token of every word.
C10_FastStartOfWord ==
    (TwmReturned /\ call.tokenizer.is_fast) =>
        LET enc == EncodePlus(call.tokenizer, NormalizeWhitespace(call.text), TRUE)
            sow == call.result.start_of_word
        IN  \A i \in DOMAIN enc :
                IF enc[i].word = None \/ (i > 1 /\ enc[i].word = enc[i - 1].word)
                THEN sow[i] = 0
                ELSE sow[i] > 0

====
